---- MODULE Spec2Model ----
(***************************************************************************)
(* State-machine model of the Auth_Service of AirlineManagementProject:    *)
(* the user controller, UserService and UserRepository of                  *)
(* src/Auth_Service/src/controllers/user-controller.js, driven by          *)
(* concurrent HTTP requests against one credential store.                  *)
(*                                                                         *)
(* Every request occupies a call slot.  An async handler runs              *)
(* synchronously up to its first `await` (the Call action), the store      *)
(* serves the awaited query atomically and the handler runs to its end     *)
(* (the Store action), and the controller sends the response (Respond).    *)
(* Time is in seconds, as in the iat/exp fields of a JSON Web Token.       *)
(*                                                                         *)
(* Spec serves one request at a time while the clock, the administrator    *)
(* and database outages act between the steps of the request; SpecRace     *)
(* runs signups concurrently in every slot.                                *)
(***************************************************************************)
EXTENDS Integers, FiniteSets, Sequences, TLC

\* ------------------------------------------------------------- bounds
MaxLate == 0
MaxId == 2
MaxTokens == 2
NumCalls == 2

\* ---------------------------------------------------------- constants
\* jwt.sign(user, JWT_KEY, { expiresIn: '1d' }): one day, in seconds.
TTL == 86400

JWT_KEY == "JWT_KEY"
OTHER_KEY == "OTHER_KEY"

\* Well-formed e-mail addresses, and one the User model's validation rejects.
Emails == {"a@x.com", "b@x.com"}
BadEmail == "not-an-email"
Passwords == {"pw123", "wrong"}

\* The instants at which the clock is read: 0, then one second before the
\* first possible expiry, then second by second, so that a token issued at 0
\* is met strictly before, exactly at and after its expiry.
NextInstant(now) == IF now = 0 THEN TTL - 1 ELSE now + 1

Slots == 1..NumCalls

\* A body field the request does not carry reads as undefined; like the empty
\* string it is falsy, and "" stands for both.
Missing == ""

\* The roles a seeder may insert, and their keys.
RoleNames == {"ADMIN", "CUSTOMER"}

RoleId(name) == IF name = "ADMIN" THEN 1 ELSE 2

VARIABLES
    clock,      \* Date.now() / 1000, floored
    users,      \* rows of the Users table: [id, email, password]
    nextId,     \* the table's auto-increment counter
    calls,      \* the requests in flight, one per slot
    issued,     \* history: every token signIn has returned
    registered, \* history: [id, email, plain] of every successful signup
    deleted,    \* history: ids of the rows that were destroyed
    roles,      \* rows of the Roles table: [id, name]
    userRoles,  \* rows of the User_Roles join table: [userId, roleId]
    airplanes,  \* the Airplanes table: the capacity under each id, 0 for no row
    flights,    \* rows of the Flights table
    fcall       \* the POST /flights request in flight

vars == <<clock, users, nextId, calls, issued, registered, deleted, roles, userRoles,
          airplanes, flights, fcall>>

\* ------------------------------------------------------------ bcrypt
\* A secret is a tagged value: the plaintext itself or its bcrypt hash.
Plain(p) == [kind |-> "plain", v |-> p]

\* bcrypt.hashSync(plaintext, SALT).  The salt is left out: it changes the
\* hash's bytes, never what the hash verifies against.
BcryptHashSync(p) == [kind |-> "bcrypt", v |-> p]

\* A column that holds no value (null).
NoSecret == [kind |-> "none", v |-> ""]

\* bcrypt.compareSync(plaintext, hash): false for a string that is no bcrypt hash.
BcryptCompareSync(p, h) == h.kind = "bcrypt" /\ h.v = p

\* bcrypt.compareSync(plaintext, hash) throws Error('data and hash arguments
\* required') when the hash is null or undefined.
BcryptCompareSyncThrows(p, h) == h.kind = "none"

\* ------------------------------------------------------ jsonwebtoken
NullPayload == [id |-> 0, email |-> "", iat |-> 0, exp |-> 0]

\* The HMAC of a payload under a key, as the pair it is a function of.
Sign(key, payload) == [key |-> key, over |-> payload]

\* The request carried no x-access-token header (token is undefined).
NoToken == [payload |-> NullPayload, sig |-> [key |-> "", over |-> NullPayload]]

\* jwt.sign(claims, key, { expiresIn: '1d' }) at time now.
JwtSign(claims, key, now) ==
    LET payload == [id |-> claims.id, email |-> claims.email,
                    iat |-> now, exp |-> now + TTL]
    IN  [payload |-> payload, sig |-> Sign(key, payload)]

\* jwt.verify(token, key) at time now: the signature is checked first, then
\* the expiry (clockTimestamp >= payload.exp is expired).
JwtVerify(token, key, now) ==
    IF token = NoToken
    THEN [ok |-> FALSE, err |-> "JsonWebTokenError", payload |-> NullPayload]
    ELSE IF token.sig # Sign(key, token.payload)
    THEN [ok |-> FALSE, err |-> "JsonWebTokenError", payload |-> NullPayload]
    ELSE IF now >= token.payload.exp
    THEN [ok |-> FALSE, err |-> "TokenExpiredError", payload |-> NullPayload]
    ELSE [ok |-> TRUE, err |-> "", payload |-> token.payload]

\* ------------------------------------------------------- UserService
\* createToken as it would be signing the id alone: jwt.sign({id: user.id}, ...).
createToken_IdOnly(user, now) == JwtSign([user EXCEPT !.email = ""], JWT_KEY, now)

\* createToken as it would be with { expiresIn: '1h' }.
createToken_OneHour(user, now) ==
    LET payload == [JwtSign(user, JWT_KEY, now).payload EXCEPT !.exp = now + 3600]
    IN  [payload |-> payload, sig |-> Sign(JWT_KEY, payload)]

\* UserService.createToken(user)
createToken(user, now) == JwtSign(user, JWT_KEY, now)

\* verifyToken as it would be checking the signature against the key the
\* token itself names.
verifyToken_AnyKey(token, now) ==
    IF token = NoToken THEN JwtVerify(token, JWT_KEY, now)
    ELSE JwtVerify(token, token.sig.key, now)

\* verifyToken as it would be with { maxAge: '1h' }.
verifyToken_MaxAge(token, now) ==
    LET r == JwtVerify(token, JWT_KEY, now)
    IN  IF r.ok /\ now - token.payload.iat >= 3600
        THEN [ok |-> FALSE, err |-> "TokenExpiredError", payload |-> NullPayload]
        ELSE r

\* verifyToken as it would be with { ignoreExpiration: true }.
verifyToken_IgnoreExpiration(token, now) ==
    LET r == JwtVerify(token, JWT_KEY, now)
    IN  IF r.err = "TokenExpiredError"
        THEN [ok |-> TRUE, err |-> "", payload |-> token.payload]
        ELSE r

\* verifyToken as it would be with jwt.decode, which checks no signature.
verifyToken_DecodeOnly(token, now) ==
    IF token = NoToken
    THEN [ok |-> FALSE, err |-> "JsonWebTokenError", payload |-> NullPayload]
    ELSE IF now >= token.payload.exp
    THEN [ok |-> FALSE, err |-> "TokenExpiredError", payload |-> NullPayload]
    ELSE [ok |-> TRUE, err |-> "", payload |-> token.payload]

\* UserService.verifyToken(token): rethrows what jwt.verify throws.
verifyToken(token, now) == JwtVerify(token, JWT_KEY, now)

\* checkPassword as it would be returning the promise of bcrypt.compare.
checkPassword_Truthy(userInputPlainPassword, encryptedPassword) == TRUE

\* UserService.checkPassword(plain, encrypted)
checkPassword(userInputPlainPassword, encryptedPassword) ==
    BcryptCompareSync(userInputPlainPassword, encryptedPassword)

\* UserService.checkPassword throws whatever bcrypt.compareSync throws: the
\* catch block logs and rethrows.
checkPasswordThrows(userInputPlainPassword, encryptedPassword) ==
    BcryptCompareSyncThrows(userInputPlainPassword, encryptedPassword)

\* ---------------------------------------------------- the User model
\* The model's validation of a new row (isEmail).
UserValidate(data) == data.email \in Emails

\* The model's beforeCreate hook: the password is replaced by its hash.
UserBeforeCreate(data) == [data EXCEPT !.password = BcryptHashSync(@.v)]

\* User.create(data) with the database up: validation, the hook, then the
\* insert under the unique index on email.  The outcome and the table after.
UserCreate(data, table, id) ==
    IF ~UserValidate(data)
    THEN [err |-> "SequelizeValidationError", table |-> table]
    ELSE IF \E u \in table : u.email = data.email
    THEN [err |-> "SequelizeUniqueConstraintError", table |-> table]
    ELSE [err |-> "",
          table |-> table \cup {[id |-> id,
                                 email |-> data.email,
                                 password |-> UserBeforeCreate(data).password]}]

\* ---------------------------------------------------- UserRepository
\* UserRepository.create as it would be inserting past the model's hooks
\* (a bulk or raw insert).
UserRepositoryCreate_NoHooks(data, table, id, up) ==
    IF ~up
    THEN [err |-> "SequelizeConnectionError", table |-> table]
    ELSE IF ~UserValidate(data)
    THEN [err |-> "ValidationError", table |-> table]
    ELSE IF \E u \in table : u.email = data.email
    THEN [err |-> "SequelizeUniqueConstraintError", table |-> table]
    ELSE [err |-> "",
          table |-> table \cup {[id |-> id, email |-> data.email,
                                 password |-> data.password]}]

\* UserRepository.create as it would be with User.upsert: a row that has the
\* email is replaced.
UserRepositoryCreate_Upsert(data, table, id, up) ==
    IF ~up
    THEN [err |-> "SequelizeConnectionError", table |-> table]
    ELSE IF ~UserValidate(data)
    THEN [err |-> "ValidationError", table |-> table]
    ELSE [err |-> "",
          table |-> {u \in table : u.email # data.email}
                        \cup {[id |-> id, email |-> data.email,
                               password |-> UserBeforeCreate(data).password]}]

\* UserRepository.create(data): User.create, a SequelizeValidationError
\* wrapped in ValidationError, any other error rethrown as it is.
UserRepositoryCreate(data, table, id, up) ==
    IF ~up
    THEN [err |-> "SequelizeConnectionError", table |-> table]
    ELSE LET r == UserCreate(data, table, id)
         IN  IF r.err = "SequelizeValidationError"
             THEN [err |-> "ValidationError", table |-> table]
             ELSE r

\* UserRepository.getById(userId): the rows with that primary key (none or one).
getById(userId, table) == {u \in table : u.id = userId}

\* getByEmail as it would be without its where clause: the first row.
getByEmail_NoWhere(userEmail, table) ==
    {u \in table : \A w \in table : u.id <= w.id}

\* UserRepository.getByEmail(userEmail): the rows with that email.
getByEmail(userEmail, table) == {u \in table : u.email = userEmail}

\* User.findByPk(userId): the rows with that primary key, every column.
UserFindByPk(userId, table) == {u \in table : u.id = userId}

\* Role.findOne({where: {name}}): the rows with that name (none or one).
RoleFindOne(name, table) == {r \in table : r.name = name}

\* user.hasRole(role), the method the Users-Roles association adds: whether
\* the join table holds the pair; for a null role no row matches.
UserHasRole(userId, roleId, joins) ==
    roleId # 0 /\ [userId |-> userId, roleId |-> roleId] \in joins

\* The call as it would be passing the role's key: user.hasRole(adminRole.id).
hasRoleCall_ById(user, adminRole) ==
    IF user = 0 \/ adminRole = 0 THEN "TypeError" ELSE ""

\* UserRepository.isAdmin at `user.hasRole(adminRole)`: on a null user the
\* call itself is a TypeError.  A user and a role are named by their keys, 0 is null.
hasRoleCall(user, adminRole) == IF user = 0 THEN "TypeError" ELSE ""

\* isAdmin as it would be asking whether the user holds any role at all.
UserRepositoryIsAdmin_AnyRole(user, adminRole, joins) ==
    \E m \in joins : m.userId = user

\* UserRepository.isAdmin(userId), what it returns: user.hasRole(adminRole).
UserRepositoryIsAdmin(user, adminRole, joins) == UserHasRole(user, adminRole, joins)

\* ------------------------------------------------------- call slots
\* What a service method hands to its controller: nothing, a boolean, a User
\* instance or a token (the token itself is kept in the slot's token field).
NoData == [type |-> "none", bool |-> FALSE, id |-> 0, email |-> "", password |-> NoSecret]

BooleanData(b) == [NoData EXCEPT !.type = "boolean", !.bool = b]

UserData(u) == [type |-> "user", bool |-> FALSE, id |-> u.id, email |-> u.email,
                password |-> u.password]

TokenData == [NoData EXCEPT !.type = "token"]

Idle == [op |-> "idle", pc |-> "idle", email |-> "", password |-> "",
         token |-> NoToken, res |-> "", id |-> 0, user |-> 0, role |-> 0,
         data |-> NoData, log |-> <<>>]

InFlight(op) == Cardinality({s \in Slots : calls[s].op = op /\ calls[s].pc # "done"})

\* A request is served in the first free slot.
Free(s) == calls[s].op = "idle" /\ \A o \in 1..(s - 1) : calls[o].op # "idle"

\* No request is being served.
Serial == \A o \in Slots : calls[o].op = "idle"

\* The handler has returned or thrown: the slot keeps the outcome, the email
\* and the token the request was about.
Done(s, res, token) ==
    [calls EXCEPT ![s] = [Idle EXCEPT !.op = calls[s].op, !.pc = "done",
                                      !.email = calls[s].email,
                                      !.id = calls[s].id,
                                      !.log = calls[s].log,
                                      !.res = res, !.token = token]]

\* The slots after slot s has made one more call: to the store, or to bcrypt.
Logged(slots, s, name) == [slots EXCEPT ![s].log = Append(@, name)]

\* The handler has returned: the slot keeps what it returned as well.
Returned(s, token, data) == [Done(s, "ok", token) EXCEPT ![s].data = data]

\* What a caller may present as a token: nothing, a token it was issued, an
\* issued token with its subject or its expiry altered, or an issued token
\* signed again with a key of the caller's own.
Tamper(t) ==
    {[t EXCEPT !.payload.id = i] : i \in (1..MaxId) \ {t.payload.id}}
        \cup {[t EXCEPT !.payload.exp = @ + TTL]}

Resign(t) == [t EXCEPT !.sig = Sign(OTHER_KEY, t.payload)]

Forged(tokens) == UNION {Tamper(t) \cup {Resign(t)} : t \in tokens}

Presentable == {NoToken} \cup issued \cup Forged(issued)

\* ------------------------------------------- the flights service
AirplaneIds == {1, 2}

Capacities == {100, 180}

\* A body field the request does not carry (undefined), for a numeric field.
Undefined == -1

\* The POST /flights request slot at rest.
FIdle == [pc |-> "idle", res |-> "", airplane |-> 0, log |-> <<>>,
          body |-> [flightNumber |-> Missing, airplaneId |-> Undefined,
                    departureAirportId |-> Undefined, arrivalAirportId |-> Undefined,
                    arrivalTime |-> Undefined, departureTime |-> Undefined,
                    price |-> Undefined]]

\* The flights service has no airplane, no flight and no request.
NoFlights ==
    /\ airplanes = [i \in AirplaneIds |-> 0]
    /\ flights = {}
    /\ fcall = FIdle

FlightFields == {"flightNumber", "airplaneId", "departureAirportId",
                 "arrivalAirportId", "arrivalTime", "departureTime", "price"}

\* Request bodies that carry all seven fields: times as instants, the price 0 included.
FullBodies ==
    [flightNumber : {"F1", "F2"}, airplaneId : AirplaneIds,
     departureAirportId : {1}, arrivalAirportId : {2},
     arrivalTime : {1, 2}, departureTime : {1, 2}, price : {0, 100}]

\* The body without one of its fields.
Drop(body, field) ==
    [f \in DOMAIN body |->
        IF f # field THEN body[f]
        ELSE IF f = "flightNumber" THEN Missing ELSE Undefined]

FlightBodies == FullBodies \cup {Drop(b, f) : b \in FullBodies, f \in FlightFields}

\* !x for the value of a body field: undefined, 0 and "" are falsy.
Falsy(field, x) == IF field = "flightNumber" THEN x = Missing ELSE x \in {Undefined, 0}

\* validateCreateFlight(req, res, next): 400 when one of the seven fields is
\* falsy, next() otherwise.
validateCreateFlight(body) ==
    IF \E f \in FlightFields : Falsy(f, body[f])
    THEN [next |-> FALSE, status |-> 400]
    ELSE [next |-> TRUE, status |-> 0]

\* compareTime(timeString1, timeString2) of utils/helper: whether the first
\* instant is after the second.
compareTime(timeString1, timeString2) == timeString1 > timeString2

\* createFlight as it would be reading the capacity with `airplane?.capacity ?? 0`.
airplaneCapacity_Optional(airplane) == [err |-> "", capacity |-> airplane]

\* FlightService.createFlight at `airplane.capacity`: a TypeError on a null
\* airplane.  An airplane is named by its capacity, 0 is null.
airplaneCapacity(airplane) ==
    IF airplane = 0
    THEN [err |-> "TypeError", capacity |-> 0]
    ELSE [err |-> "", capacity |-> airplane]

\* Flights.create(data): the flight number is unique.
FlightsCreate(data, table) ==
    IF \E f \in table : f.flightNumber = data.flightNumber
    THEN [err |-> "SequelizeUniqueConstraintError", table |-> table]
    ELSE [err |-> "", table |-> table \cup {data}]

\* The request has ended with this outcome.
FDone(res) == [fcall EXCEPT !.pc = "done", !.res = res]

AuthUnchanged ==
    UNCHANGED <<clock, users, nextId, calls, issued, registered, deleted, roles, userRoles>>

\* createFlight as it would be without its compareTime check.
FlightRoute_NoTimeCheck(body) ==
    /\ fcall.pc = "idle"
    /\ fcall' =
          IF ~validateCreateFlight(body).next
          THEN [FIdle EXCEPT !.pc = "done", !.res = "BadRequest", !.body = body]
          ELSE [FIdle EXCEPT !.pc = "await_getAirplane", !.body = body,
                             !.log = <<"getAirplane">>]
    /\ UNCHANGED <<airplanes, flights>>
    /\ AuthUnchanged

\* POST /flights: validateCreateFlight, then the controller's create ->
\* FlightService.createFlight, up to `await getAirplane(data.airplaneId)`.
\* The service throws before any store call when compareTime fails.
FlightRoute(body) ==
    /\ fcall.pc = "idle"
    /\ fcall' =
          IF ~validateCreateFlight(body).next
          THEN [FIdle EXCEPT !.pc = "done", !.res = "BadRequest", !.body = body]
          ELSE IF ~compareTime(body.arrivalTime, body.departureTime)
          THEN [FIdle EXCEPT !.pc = "done", !.res = "ArrivalNotAfterDeparture",
                             !.body = body]
          ELSE [FIdle EXCEPT !.pc = "await_getAirplane", !.body = body,
                             !.log = <<"getAirplane">>]
    /\ UNCHANGED <<airplanes, flights>>
    /\ AuthUnchanged

\* The store answers Airplane.findByPk: the airplane or null.  The capacity
\* is read and FlightRepository.createFlight is called, up to `await Flights.create`.
FlightGetAirplane(up) ==
    /\ fcall.pc = "await_getAirplane"
    /\ LET id == fcall.body.airplaneId
           airplane == IF id \in DOMAIN airplanes THEN airplanes[id] ELSE 0
           read == airplaneCapacity(airplane)
       IN  fcall' = IF ~up THEN FDone("SequelizeConnectionError")
                    ELSE IF read.err # "" THEN FDone(read.err)
                    ELSE [fcall EXCEPT !.pc = "await_Flights_create",
                                       !.airplane = read.capacity,
                                       !.log = Append(@, "Flights.create")]
    /\ UNCHANGED <<airplanes, flights>>
    /\ AuthUnchanged

\* The store answers Flights.create({...data, totalSeats: airplane.capacity}).
FlightsCreateStore(up) ==
    /\ fcall.pc = "await_Flights_create"
    /\ LET data == [flightNumber |-> fcall.body.flightNumber,
                    airplaneId |-> fcall.body.airplaneId,
                    arrivalTime |-> fcall.body.arrivalTime,
                    departureTime |-> fcall.body.departureTime,
                    price |-> fcall.body.price,
                    totalSeats |-> fcall.airplane]
           r == FlightsCreate(data, flights)
       IN  IF ~up
           THEN fcall' = FDone("SequelizeConnectionError") /\ flights' = flights
           ELSE fcall' = FDone(IF r.err = "" THEN "ok" ELSE r.err) /\ flights' = r.table
    /\ UNCHANGED airplanes
    /\ AuthUnchanged

\* The controller sends the response.
FlightRespond ==
    /\ fcall.pc = "done"
    /\ fcall' = FIdle
    /\ UNCHANGED <<airplanes, flights>>
    /\ AuthUnchanged

\* An airplane's row is inserted, or its capacity changed.
PutAirplane(id, capacity) ==
    /\ airplanes[id] # capacity
    /\ airplanes' = [airplanes EXCEPT ![id] = capacity]
    /\ UNCHANGED <<flights, fcall>>
    /\ AuthUnchanged

\* An airplane's row is deleted.
RemoveAirplane(id) ==
    /\ airplanes[id] # 0
    /\ airplanes' = [airplanes EXCEPT ![id] = 0]
    /\ UNCHANGED <<flights, fcall>>
    /\ AuthUnchanged

NextFlights ==
    \/ \E body \in FlightBodies : FlightRoute(body)
    \/ \E up \in BOOLEAN : FlightGetAirplane(up)
    \/ \E up \in BOOLEAN : FlightsCreateStore(up)
    \/ FlightRespond
    \/ \E i \in AirplaneIds, c \in Capacities : PutAirplane(i, c)
    \/ \E i \in AirplaneIds : RemoveAirplane(i)

\* ----------------------------------------------------------- actions
Init ==
    /\ clock = 0
    /\ users = {}
    /\ nextId = 1
    /\ calls = [s \in Slots |-> Idle]
    /\ issued = {}
    /\ registered = {}
    /\ deleted = {}
    /\ roles = {}
    /\ userRoles = {}
    /\ NoFlights

\* Time passes.
Tick ==
    /\ clock < TTL + MaxLate
    /\ clock' = NextInstant(clock)
    /\ UNCHANGED <<users, nextId, calls, issued, registered, deleted, roles, userRoles,
                   airplanes, flights, fcall>>

\* POST /signup: controller create -> UserService.create -> UserRepository.create,
\* up to `await User.create(data)`.
CreateCall(s, e, p) ==
    /\ Free(s)
    /\ nextId + InFlight("create") <= MaxId
    /\ calls' = [calls EXCEPT ![s] = [Idle EXCEPT !.op = "create",
                                                  !.pc = "await_User_create",
                                                  !.email = e, !.password = p,
                                                  !.log = <<"User.create">>]]
    /\ UNCHANGED <<clock, users, nextId, issued, registered, deleted, roles, userRoles,
                   airplanes, flights, fcall>>

\* UserService.create, from the store's answer on: a validation error is
\* rethrown for the controller (the repository's ValidationError, whose class is
\* outside this file, is taken to keep the name of the error it wraps), every other error becomes
\* AppErrors('ServerError', ..., 500).
UserServiceCreate(data, table, id, up) ==
    LET r == UserRepositoryCreate(data, table, id, up)
    IN  [r EXCEPT !.err = IF @ \in {"", "ValidationError"} THEN @ ELSE "ServerError"]

CreateStore(s, up) ==
    /\ calls[s].op = "create" /\ calls[s].pc = "await_User_create"
    /\ LET data == [email |-> calls[s].email, password |-> Plain(calls[s].password)]
           r == UserServiceCreate(data, users, nextId, up)
       IN  /\ users' = r.table
           /\ IF r.err = ""
              THEN /\ nextId' = nextId + 1
                   /\ registered' = registered \cup
                        {[id |-> nextId, email |-> data.email, plain |-> data.password.v]}
                   /\ calls' = Returned(s, NoToken,
                                UserData(CHOOSE u \in r.table : u.id = nextId))
              ELSE /\ UNCHANGED <<nextId, registered>>
                   /\ calls' = Done(s, r.err, NoToken)
    /\ UNCHANGED <<clock, issued, deleted, roles, userRoles,
                   airplanes, flights, fcall>>

\* POST /signin: controller signIn -> UserService.signIn, up to
\* `await this.userRepository.getByEmail(email)`.
SignInCall(s, e, p) ==
    /\ Free(s)
    /\ Cardinality(issued) + InFlight("signIn") < MaxTokens
    /\ calls' = [calls EXCEPT ![s] = [Idle EXCEPT !.op = "signIn",
                                                  !.pc = "await_getByEmail",
                                                  !.email = e, !.password = p,
                                                  !.log = <<"getByEmail">>]]
    /\ UNCHANGED <<clock, users, nextId, issued, registered, deleted, roles, userRoles,
                   airplanes, flights, fcall>>

\* UserService.signIn, from the store's answer on: the outcome and the token.
\* user.password on a null user is a TypeError, what checkPassword throws is
\* rethrown, a mismatch throws {error: 'Incorrect password'}, a match returns
\* createToken({email: user.email, id: user.id}).
signIn(email, plainPassword, table, now, up) ==
    IF ~up
    THEN {[res |-> "SequelizeConnectionError", token |-> NoToken]}
    ELSE LET found == getByEmail(email, table)
         IN  IF found = {}
             THEN {[res |-> "TypeError", token |-> NoToken]}
             ELSE {IF checkPasswordThrows(plainPassword, user.password)
                   THEN [res |-> "BcryptError", token |-> NoToken]
                   ELSE IF ~checkPassword(plainPassword, user.password)
                   THEN [res |-> "IncorrectPassword", token |-> NoToken]
                   ELSE [res |-> "ok",
                         token |-> createToken([email |-> user.email,
                                                id |-> user.id], now)]
                   : user \in found}

\* signIn as it would be keeping the request's email and password in fields
\* of the one UserService instance: the request that arrived last overwrites them.
SignInStore_SharedFields(s, up) ==
    /\ calls[s].op = "signIn" /\ calls[s].pc = "await_getByEmail"
    /\ LET last == CHOOSE o \in Slots :
                        /\ calls[o].op = "signIn" /\ calls[o].pc = "await_getByEmail"
                        /\ \A q \in Slots :
                              (calls[q].op = "signIn" /\ calls[q].pc = "await_getByEmail")
                                  => q <= o
       IN  \E out \in signIn(calls[last].email, calls[last].password, users, clock, up) :
              /\ calls' = LET after == IF out.res = "ok"
                                        THEN Returned(s, out.token, TokenData)
                                        ELSE Done(s, out.res, out.token)
                          IN  IF up /\ getByEmail(calls[last].email, users) # {}
                              THEN Logged(after, s, "checkPassword")
                              ELSE after
              /\ issued' = IF out.res = "ok" THEN issued \cup {out.token} ELSE issued
    /\ UNCHANGED <<clock, users, nextId, registered, deleted, roles, userRoles,
                   airplanes, flights, fcall>>

\* signIn as it would be asking the store again when getByEmail rejects.
SignInStore_Retry(s, up) ==
    /\ calls[s].op = "signIn" /\ calls[s].pc = "await_getByEmail"
    /\ IF ~up /\ Len(calls[s].log) < 2
       THEN /\ calls' = Logged(calls, s, "getByEmail")
            /\ issued' = issued
       ELSE \E out \in signIn(calls[s].email, calls[s].password, users, clock, up) :
              /\ calls' = LET after == IF out.res = "ok"
                                        THEN Returned(s, out.token, TokenData)
                                        ELSE Done(s, out.res, out.token)
                          IN  IF up /\ getByEmail(calls[s].email, users) # {}
                              THEN Logged(after, s, "checkPassword")
                              ELSE after
              /\ issued' = IF out.res = "ok" THEN issued \cup {out.token} ELSE issued
    /\ UNCHANGED <<clock, users, nextId, registered, deleted, roles, userRoles,
                   airplanes, flights, fcall>>

SignInStore(s, up) ==
    /\ calls[s].op = "signIn" /\ calls[s].pc = "await_getByEmail"
    /\ \E out \in signIn(calls[s].email, calls[s].password, users, clock, up) :
          /\ calls' = LET after == IF out.res = "ok"
                                    THEN Returned(s, out.token, TokenData)
                                    ELSE Done(s, out.res, out.token)
                      IN  IF up /\ getByEmail(calls[s].email, users) # {}
                          THEN Logged(after, s, "checkPassword")
                          ELSE after
          /\ issued' = IF out.res = "ok" THEN issued \cup {out.token} ELSE issued
    /\ UNCHANGED <<clock, users, nextId, registered, deleted, roles, userRoles,
                   airplanes, flights, fcall>>

\* isAuthenticated as it would be decoding the token and fetching the user
\* before it verifies.
IsAuthenticatedCall_LookupFirst(s, token) ==
    /\ Free(s)
    /\ calls' = [calls EXCEPT ![s] =
            [Idle EXCEPT !.op = "isAuthenticated", !.pc = "await_getById",
                         !.token = token, !.log = <<"getById">>]]
    /\ UNCHANGED <<clock, users, nextId, issued, registered, deleted, roles, userRoles,
                   airplanes, flights, fcall>>

\* GET /isAuthenticated: controller isAuthenticated -> UserService.isAuthenticated,
\* up to `await this.userRepository.getById(response.id)`: verifyToken runs at
\* once and throws, or returns the payload (an object, so `!response` is false).
IsAuthenticatedCall(s, token) ==
    /\ Free(s)
    /\ LET response == verifyToken(token, clock)
       IN  calls' = [calls EXCEPT ![s] =
                [Idle EXCEPT !.op = "isAuthenticated",
                             !.pc = IF response.ok THEN "await_getById" ELSE "done",
                             !.token = token,
                             !.res = response.err,
                             !.log = IF response.ok THEN <<"getById">> ELSE <<>>]]
    /\ UNCHANGED <<clock, users, nextId, issued, registered, deleted, roles, userRoles,
                   airplanes, flights, fcall>>

\* isAuthenticated as it would be without its `if (!user)` check.
isAuthenticated_NoUserCheck(response, table, up) ==
    IF ~up THEN "SequelizeConnectionError" ELSE "ok"

\* isAuthenticated as it would be falling back on the payload's email when no
\* row has the payload's id.
isAuthenticated_EmailFallback(response, table, up) ==
    IF ~up
    THEN "SequelizeConnectionError"
    ELSE IF getById(response.id, table) = {} /\ getByEmail(response.email, table) = {}
    THEN "NoUserForToken"
    ELSE "ok"

\* isAuthenticated as it would be looking the subject up by its email.
isAuthenticated_ByEmail(response, table, up) ==
    IF ~up
    THEN "SequelizeConnectionError"
    ELSE IF getByEmail(response.email, table) = {}
    THEN "NoUserForToken"
    ELSE "ok"

\* UserService.isAuthenticated, from the store's answer on: no user throws
\* {error: 'No user with the corresponding token exists'}, a user returns true.
isAuthenticated(response, table, up) ==
    IF ~up
    THEN "SequelizeConnectionError"
    ELSE IF getById(response.id, table) = {}
    THEN "NoUserForToken"
    ELSE "ok"

\* What UserService.isAuthenticated returns once getById has found the user
\* (a User instance holding the attributes 'email' and 'id'): `return true`.
isAuthenticatedReturn(user) == BooleanData(TRUE)

IsAuthenticatedStore(s, up) ==
    /\ calls[s].op = "isAuthenticated" /\ calls[s].pc = "await_getById"
    /\ LET res == isAuthenticated(calls[s].token.payload, users, up)
       IN  calls' = IF res = "ok"
                    THEN Returned(s, calls[s].token,
                                  isAuthenticatedReturn(
                                      CHOOSE u \in getById(calls[s].token.payload.id, users) : TRUE))
                    ELSE Done(s, res, calls[s].token)
    /\ UNCHANGED <<clock, users, nextId, issued, registered, deleted, roles, userRoles,
                   airplanes, flights, fcall>>

\* UserRepository.destroy(userId): the administrative deletion of a row.
Destroy(userId) ==
    /\ \E u \in users : u.id = userId
    /\ users' = {u \in users : u.id # userId}
    /\ registered' = {r \in registered : r.id # userId}
    /\ deleted' = deleted \cup {userId}
    /\ userRoles' = {m \in userRoles : m.userId # userId}
    /\ UNCHANGED <<clock, nextId, calls, issued, roles,
                   airplanes, flights, fcall>>

\* GET /isAdmin: validateIsAdminRequest passes a truthy id, controller isAdmin
\* -> UserService.isAdmin -> UserRepository.isAdmin, up to `await User.findByPk`.
IsAdminCall(s, userId) ==
    /\ Free(s)
    /\ calls' = [calls EXCEPT ![s] = [Idle EXCEPT !.op = "isAdmin",
                                                  !.pc = "await_User_findByPk",
                                                  !.id = userId,
                                                  !.log = <<"User.findByPk">>]]
    /\ UNCHANGED <<clock, users, nextId, issued, registered, deleted, roles, userRoles,
                   airplanes, flights, fcall>>

\* The store answers findByPk: the user or null, and isAdmin goes on to
\* `await Role.findOne` either way.  A store error is rethrown up to the controller.
IsAdminUser(s, up) ==
    /\ calls[s].op = "isAdmin" /\ calls[s].pc = "await_User_findByPk"
    /\ calls' = IF ~up
                THEN Done(s, "SequelizeConnectionError", NoToken)
                ELSE [calls EXCEPT ![s].pc = "await_Role_findOne",
                                   ![s].user = IF UserFindByPk(calls[s].id, users) = {}
                                               THEN 0 ELSE calls[s].id,
                                   ![s].log = Append(@, "Role.findOne")]
    /\ UNCHANGED <<clock, users, nextId, issued, registered, deleted, roles, userRoles,
                   airplanes, flights, fcall>>

\* The store answers findOne: the ADMIN role or null, and user.hasRole is called.
IsAdminRole(s, up) ==
    /\ calls[s].op = "isAdmin" /\ calls[s].pc = "await_Role_findOne"
    /\ LET found == RoleFindOne("ADMIN", roles)
           adminRole == IF found = {} THEN 0 ELSE (CHOOSE r \in found : TRUE).id
       IN  calls' = IF ~up
                    THEN Done(s, "SequelizeConnectionError", NoToken)
                    ELSE IF hasRoleCall(calls[s].user, adminRole) # ""
                    THEN Done(s, hasRoleCall(calls[s].user, adminRole), NoToken)
                    ELSE [calls EXCEPT ![s].pc = "await_hasRole", ![s].role = adminRole,
                                       ![s].log = Append(@, "user.hasRole")]
    /\ UNCHANGED <<clock, users, nextId, issued, registered, deleted, roles, userRoles,
                   airplanes, flights, fcall>>

\* The store answers the join-table query: isAdmin returns the boolean.
IsAdminHasRole(s, up) ==
    /\ calls[s].op = "isAdmin" /\ calls[s].pc = "await_hasRole"
    /\ calls' = IF ~up
                THEN Done(s, "SequelizeConnectionError", NoToken)
                ELSE Returned(s, NoToken,
                        BooleanData(UserRepositoryIsAdmin(calls[s].user, calls[s].role,
                                                          userRoles)))
    /\ UNCHANGED <<clock, users, nextId, issued, registered, deleted, roles, userRoles,
                   airplanes, flights, fcall>>

\* The Roles table is seed data: a seeder inserts a role's row.
SeedRole(name) ==
    /\ RoleFindOne(name, roles) = {}
    /\ roles' = roles \cup {[id |-> RoleId(name), name |-> name]}
    /\ UNCHANGED <<clock, users, nextId, calls, issued, registered, deleted, userRoles,
                   airplanes, flights, fcall>>

\* An administrator gives a user a role, or takes it back: a row of User_Roles.
Grant(userId, roleId) ==
    /\ \E u \in users : u.id = userId
    /\ \E r \in roles : r.id = roleId
    /\ [userId |-> userId, roleId |-> roleId] \notin userRoles
    /\ userRoles' = userRoles \cup {[userId |-> userId, roleId |-> roleId]}
    /\ UNCHANGED <<clock, users, nextId, calls, issued, registered, deleted, roles,
                   airplanes, flights, fcall>>

Revoke(userId, roleId) ==
    /\ [userId |-> userId, roleId |-> roleId] \in userRoles
    /\ userRoles' = userRoles \ {[userId |-> userId, roleId |-> roleId]}
    /\ UNCHANGED <<clock, users, nextId, calls, issued, registered, deleted, roles,
                   airplanes, flights, fcall>>

\* The controller sends the response; the slot is free for the next request.
Respond(s) ==
    /\ calls[s].pc = "done"
    /\ calls' = [calls EXCEPT ![s] = Idle]
    /\ UNCHANGED <<clock, users, nextId, issued, registered, deleted, roles, userRoles,
                   airplanes, flights, fcall>>

Next ==
    \/ Tick
    \/ \E s \in Slots, e \in Emails \cup {BadEmail}, p \in Passwords :
          Serial /\ CreateCall(s, e, p)
    \/ \E s \in Slots, up \in BOOLEAN : CreateStore(s, up)
    \/ \E s \in Slots, e \in Emails, p \in Passwords : Serial /\ SignInCall(s, e, p)
    \/ \E s \in Slots, up \in BOOLEAN : SignInStore(s, up)
    \/ \E s \in Slots, t \in Presentable : Serial /\ IsAuthenticatedCall(s, t)
    \/ \E s \in Slots, up \in BOOLEAN : IsAuthenticatedStore(s, up)
    \/ \E i \in 1..MaxId : Destroy(i)
    \/ \E s \in Slots : Respond(s)

Spec == Init /\ [][Next]_vars

\* Signups in every slot at once, against a database that answers.
NextRace ==
    \/ \E s \in Slots, e \in Emails, p \in Passwords : CreateCall(s, e, p)
    \/ \E s \in Slots : CreateStore(s, TRUE)
    \/ \E i \in 1..MaxId : Destroy(i)
    \/ \E s \in Slots : Respond(s)

SpecRace == Init /\ [][NextRace]_vars

\* Every route, one request at a time, with roles seeded, granted and revoked
\* meanwhile; the clock stands still.
NextRoles ==
    \/ \E s \in Slots, e \in Emails \cup {BadEmail}, p \in Passwords :
          Serial /\ CreateCall(s, e, p)
    \/ \E s \in Slots, up \in BOOLEAN : CreateStore(s, up)
    \/ \E s \in Slots, e \in Emails, p \in Passwords : Serial /\ SignInCall(s, e, p)
    \/ \E s \in Slots, up \in BOOLEAN : SignInStore(s, up)
    \/ \E s \in Slots, t \in Presentable : Serial /\ IsAuthenticatedCall(s, t)
    \/ \E s \in Slots, up \in BOOLEAN : IsAuthenticatedStore(s, up)
    \/ \E s \in Slots, i \in 1..MaxId : Serial /\ IsAdminCall(s, i)
    \/ \E s \in Slots, up \in BOOLEAN : IsAdminUser(s, up)
    \/ \E s \in Slots, up \in BOOLEAN : IsAdminRole(s, up)
    \/ \E s \in Slots, up \in BOOLEAN : IsAdminHasRole(s, up)
    \/ \E n \in RoleNames : SeedRole(n)
    \/ \E i \in 1..MaxId, n \in RoleNames : Grant(i, RoleId(n))
    \/ \E i \in 1..MaxId, n \in RoleNames : Revoke(i, RoleId(n))
    \/ \E i \in 1..MaxId : Destroy(i)
    \/ \E s \in Slots : Respond(s)

SpecRoles == Init /\ [][NextRoles]_vars

\* ----------------------------------------------- the signIn response
\* What the controller's catch block reads off a thrown value: statusCode,
\* message and explanation, 0 and "" where the value has no such property.
\* {error: 'Incorrect password'} has none of them; a TypeError, bcrypt's Error
\* and a Sequelize error have a message only.
Thrown(res) ==
    CASE res = "TypeError" ->
            [statusCode |-> 0, explanation |-> "",
             message |-> "Cannot read properties of null (reading 'password')"]
      [] res = "BcryptError" ->
            [statusCode |-> 0, explanation |-> "",
             message |-> "data and hash arguments required"]
      [] res = "SequelizeConnectionError" ->
            [statusCode |-> 0, explanation |-> "", message |-> "connect ECONNREFUSED"]
      [] OTHER -> [statusCode |-> 0, explanation |-> "", message |-> ""]

\* The controller's signIn: what it sends for the outcome of UserService.signIn.
signInResponse(res) ==
    IF res = "ok"
    THEN [status |-> 200, success |-> TRUE, message |-> "Successfully signed in",
          err |-> ""]
    ELSE LET error == Thrown(res)
         IN  [status |-> IF error.statusCode # 0 THEN error.statusCode ELSE 500,
              success |-> FALSE,
              message |-> IF error.message # "" THEN error.message
                          ELSE "Something went wrong",
              err |-> IF error.explanation # "" THEN error.explanation
                      ELSE "Authentication failed"]

\* Signups and sign-ins in every slot at once, against a database that answers.
NextAuthn ==
    \/ \E s \in Slots, e \in Emails, p \in Passwords : CreateCall(s, e, p)
    \/ \E s \in Slots : CreateStore(s, TRUE)
    \/ \E s \in Slots, e \in Emails, p \in Passwords : SignInCall(s, e, p)
    \/ \E s \in Slots : SignInStore(s, TRUE)
    \/ \E s \in Slots : Respond(s)

SpecAuthn == Init /\ [][NextAuthn]_vars

\* What the password column of a row the service did not insert may hold: a
\* bcrypt hash, a string that is no bcrypt hash, or nothing.
StoredSecrets == {BcryptHashSync("pw123"), Plain("pw123"), NoSecret}

\* The service starts on a Users table that already has a row.
InitStored ==
    /\ clock = 0
    /\ \E h \in StoredSecrets : users = {[id |-> 1, email |-> "a@x.com", password |-> h]}
    /\ nextId = 2
    /\ calls = [s \in Slots |-> Idle]
    /\ issued = {}
    /\ registered = {}
    /\ deleted = {}
    /\ roles = {}
    /\ userRoles = {}
    /\ NoFlights

SpecStored == InitStored /\ [][NextAuthn]_vars

\* ------------------------------------------- the request validators
\* validateUserAuth as it would be rejecting only a body that lacks both fields.
validateUserAuth_Both(body) ==
    IF body.email = Missing /\ body.password = Missing
    THEN [next |-> FALSE, status |-> 400]
    ELSE [next |-> TRUE, status |-> 0]

\* validateUserAuth(req, res, next): 400 when the email or the password is
\* falsy, next() otherwise.
validateUserAuth(body) ==
    IF body.email = Missing \/ body.password = Missing
    THEN [next |-> FALSE, status |-> 400]
    ELSE [next |-> TRUE, status |-> 0]

\* The validator has answered 400: the request ends there.
Reject(s, op, body) ==
    /\ Free(s)
    /\ calls' = [calls EXCEPT ![s] = [Idle EXCEPT !.op = op, !.pc = "done",
                                                  !.email = body.email,
                                                  !.password = body.password,
                                                  !.res = "BadRequest"]]
    /\ UNCHANGED <<clock, users, nextId, issued, registered, deleted, roles, userRoles,
                   airplanes, flights, fcall>>

\* POST /signup: validateUserAuth, then UserController.create.
SignupRoute(s, body) ==
    IF validateUserAuth(body).next
    THEN CreateCall(s, body.email, body.password)
    ELSE Reject(s, "create", body)

\* POST /signin: validateUserAuth, then UserController.signIn.
SigninRoute(s, body) ==
    IF validateUserAuth(body).next
    THEN SignInCall(s, body.email, body.password)
    ELSE Reject(s, "signIn", body)

Bodies == [email : Emails \cup {Missing}, password : Passwords \cup {Missing}]

\* The two POST routes, one request at a time, bodies with fields missing included.
NextRoutes ==
    \/ \E s \in Slots, body \in Bodies : Serial /\ SignupRoute(s, body)
    \/ \E s \in Slots, up \in BOOLEAN : CreateStore(s, up)
    \/ \E s \in Slots, body \in Bodies : Serial /\ SigninRoute(s, body)
    \/ \E s \in Slots, up \in BOOLEAN : SignInStore(s, up)
    \/ \E s \in Slots : Respond(s)

SpecRoutes == Init /\ [][NextRoutes]_vars

\* The service with one account registered and the ADMIN role seeded.
InitConc ==
    /\ clock = 0
    /\ users = {[id |-> 1, email |-> "a@x.com", password |-> BcryptHashSync("pw123")]}
    /\ nextId = 2
    /\ calls = [s \in Slots |-> Idle]
    /\ issued = {}
    /\ registered = {[id |-> 1, email |-> "a@x.com", plain |-> "pw123"]}
    /\ deleted = {}
    /\ roles = {[id |-> RoleId("ADMIN"), name |-> "ADMIN"]}
    /\ userRoles = {}
    /\ NoFlights

\* Sign-ins, isAuthenticated and isAdmin requests in every slot at once, their
\* steps interleaved with each other's and with changes to the store.
NextConc ==
    \/ \E s \in Slots, e \in Emails, p \in Passwords : SignInCall(s, e, p)
    \/ \E s \in Slots, up \in BOOLEAN : SignInStore(s, up)
    \/ \E s \in Slots, t \in {NoToken} \cup issued : IsAuthenticatedCall(s, t)
    \/ \E s \in Slots, up \in BOOLEAN : IsAuthenticatedStore(s, up)
    \/ \E s \in Slots : IsAdminCall(s, 1)
    \/ \E s \in Slots, up \in BOOLEAN : IsAdminUser(s, up)
    \/ \E s \in Slots, up \in BOOLEAN : IsAdminRole(s, up)
    \/ \E s \in Slots, up \in BOOLEAN : IsAdminHasRole(s, up)
    \/ Grant(1, RoleId("ADMIN"))
    \/ Revoke(1, RoleId("ADMIN"))
    \/ Destroy(1)
    \/ \E s \in Slots : Respond(s)

SpecConc == InitConc /\ [][NextConc]_vars

\* The flights service alone.
SpecFlights == Init /\ [][NextFlights]_vars

\* ------------------------------------------------------ sanity
Results == {"", "ok", "ValidationError", "ServerError", "SequelizeConnectionError",
            "TypeError", "IncorrectPassword", "JsonWebTokenError",
            "TokenExpiredError", "NoUserForToken", "BcryptError", "BadRequest"}

TypeOK ==
    /\ clock \in 0..(TTL + MaxLate)
    /\ nextId \in 1..(MaxId + 1)
    /\ \A u \in users : u.id \in 1..MaxId /\ u.email \in Emails
    /\ \A s \in Slots : calls[s].res \in Results
    /\ deleted = (1..(nextId - 1)) \ {u.id : u \in users}
    /\ Cardinality(issued) <= MaxTokens

\* ============================================================ claims
\* The error kinds of the specification, for what the code throws.  A
\* TypeError, a raw Sequelize error and a ValidationError are none of them.
ErrorKind(res) ==
    CASE res = "IncorrectPassword" -> "InvalidCredentials"
      [] res = "NoUserForToken" -> "AccountGone"
      [] res = "JsonWebTokenError" -> "InvalidToken"
      [] res = "TokenExpiredError" -> "ExpiredToken"
      [] res = "ServerError" -> "StoreUnavailable"
      [] OTHER -> "Untyped"

SigOK(t) == t # NoToken /\ t.sig = Sign(JWT_KEY, t.payload)

\* Slot s starts an isAuthenticated call in this step: verifyToken runs.
Verifies(s) == calls[s].op = "idle" /\ calls'[s].op = "isAuthenticated"

\* Slot s gets the store's answer to getById in this step.
LooksUp(s) ==
    /\ calls[s].op = "isAuthenticated" /\ calls[s].pc = "await_getById"
    /\ calls'[s].pc = "done"

\* Slot s gets the store's answer to getByEmail in this step.
SignsIn(s) ==
    /\ calls[s].op = "signIn" /\ calls[s].pc = "await_getByEmail"
    /\ calls'[s].pc = "done"

Accepted(s) == calls[s].op = "isAuthenticated" /\ calls[s].pc = "done" /\ calls[s].res = "ok"

\* C1: isAuthenticated accepts a token only if its signature verifies under
\* JWT_KEY and the clock is before its expiry when verifyToken runs, and a
\* row with the token's id is in the Users table when getById is answered;
\* there is no other way into the accepted state.
C1_AcceptsOnlyValidLiveTokens ==
    [][\A s \in Slots :
        /\ (Verifies(s) /\ calls'[s].pc = "await_getById")
              => SigOK(calls'[s].token) /\ clock < calls'[s].token.payload.exp
        /\ (Accepted(s)' /\ ~Accepted(s))
              => /\ LooksUp(s)
                 /\ calls'[s].token = calls[s].token
                 /\ SigOK(calls[s].token)
                 /\ \E u \in users : u.id = calls[s].token.payload.id]_vars

C1_Witness == \E s \in Slots : Accepted(s) /\ calls[s].token \in issued

\* C2: a token signIn issued, still unexpired, whose account has been
\* destroyed, still passes verifyToken (nothing invalidated it), and the
\* lookup that follows never accepts it: it ends with the AccountGone
\* rejection whenever the database answers.
C2_DeletedSubjectIsRejected ==
    [][\A s \in Slots :
        /\ (/\ Verifies(s)
            /\ calls'[s].token \in issued
            /\ calls'[s].token.payload.id \in deleted
            /\ clock < calls'[s].token.payload.exp)
              => calls'[s].pc = "await_getById"
        /\ (LooksUp(s) /\ calls[s].token.payload.id \in deleted)
              => \/ ErrorKind(calls'[s].res) = "AccountGone"
                 \/ calls'[s].res = "SequelizeConnectionError"]_vars

C2_Witness ==
    \E s \in Slots :
        /\ calls[s].op = "isAuthenticated" /\ calls[s].pc = "done"
        /\ calls[s].res = "NoUserForToken"
        /\ calls[s].token \in issued
        /\ calls[s].token.payload.id \in deleted
        /\ clock < calls[s].token.payload.exp

C4_BadSignatureIsInvalidToken ==
    [][\A s \in Slots :
        /\ (Verifies(s) /\ ~SigOK(calls'[s].token))
              => /\ calls'[s].pc = "done"
                 /\ ErrorKind(calls'[s].res) = "InvalidToken"
        /\ Accepted(s)' => SigOK(calls'[s].token)]_vars

C4_Witness ==
    \E s \in Slots, t \in issued :
        /\ calls[s].op = "isAuthenticated" /\ calls[s].pc = "done"
        /\ calls[s].res = "JsonWebTokenError"
        /\ calls[s].token = Resign(t)
        /\ clock < t.payload.exp
        /\ \E u \in users : u.id = t.payload.id

\* C5: signIn(e, p), answered by the database while the account that
\* signup(e, p) created is in the table, returns a token signed with
\* JWT_KEY whose claims are the id and the email of that account.
C5_SignInIssuesTheAccountsToken ==
    [][\A s \in Slots : \A r \in registered :
        (/\ SignsIn(s)
         /\ calls'[s].res # "SequelizeConnectionError"
         /\ r.email = calls[s].email /\ r.plain = calls[s].password)
           => /\ calls'[s].res = "ok"
              /\ SigOK(calls'[s].token)
              /\ calls'[s].token.payload.id = r.id
              /\ calls'[s].token.payload.email = r.email
              /\ calls'[s].token \in issued']_vars

C5_Witness ==
    \E s \in Slots : \E r \in registered :
        /\ calls[s].op = "signIn" /\ calls[s].pc = "done" /\ calls[s].res = "ok"
        /\ calls[s].token.payload.id = r.id
        /\ calls[s].token.payload.email = r.email
        /\ \E u \in users : u.id # r.id

\* C6: signIn(e, p), answered by the database while the table holds a row
\* with email e whose stored hash does not verify against p, fails with
\* InvalidCredentials and issues no token.
C6_WrongPasswordIsInvalidCredentials ==
    [][\A s \in Slots :
        (/\ SignsIn(s)
         /\ calls'[s].res # "SequelizeConnectionError"
         /\ \E u \in users : /\ u.email = calls[s].email
                             /\ ~BcryptCompareSync(calls[s].password, u.password))
           => /\ ErrorKind(calls'[s].res) = "InvalidCredentials"
              /\ calls'[s].token = NoToken
              /\ issued' = issued]_vars

C6_Witness ==
    \E s \in Slots :
        /\ calls[s].op = "signIn" /\ calls[s].pc = "done"
        /\ calls[s].res = "IncorrectPassword"
        /\ \E u \in users : u.email = calls[s].email

\* C7: signIn(e, p), answered by the database while no row of the table has
\* email e, fails with AccountNotFound and issues no token.
C7_UnknownEmailIsAccountNotFound ==
    [][\A s \in Slots :
        (/\ SignsIn(s)
         /\ calls'[s].res # "SequelizeConnectionError"
         /\ ~\E u \in users : u.email = calls[s].email)
           => /\ ErrorKind(calls'[s].res) = "AccountNotFound"
              /\ calls'[s].token = NoToken
              /\ issued' = issued]_vars

\* Slot s gets the store's answer to User.create in this step.
Inserts(s) ==
    /\ calls[s].op = "create" /\ calls[s].pc = "await_User_create"
    /\ calls'[s].pc = "done"

\* C8: a signup whose email a row of the table already holds fails with
\* DuplicateAccount and leaves the table as it is; a signup whose (valid)
\* email no row holds succeeds.
C8_DuplicateEmailIsDuplicateAccount ==
    [][\A s \in Slots :
        Inserts(s) =>
            IF \E u \in users : u.email = calls[s].email
            THEN ErrorKind(calls'[s].res) = "DuplicateAccount" /\ users' = users
            ELSE calls[s].email \in Emails => calls'[s].res = "ok"]_vars

\* Slot s gets the store's answer to its signup while slot o holds a signup
\* with the same email, in flight or answered and not yet responded to.
Races(s, o) ==
    /\ s # o /\ Inserts(s)
    /\ calls[o].op = "create" /\ calls[o].email = calls[s].email
    /\ calls[s].email \in Emails

\* C9: of two signups with the same email in flight together, the one the
\* store serves while no row holds the email succeeds and creates the
\* account, the one it serves after the other has won is answered
\* DuplicateAccount, and no two rows of the table ever share an email.
C9_RaceLoserIsDuplicateAccount ==
    [][/\ \A u, w \in users' : u.email = w.email => u = w
       /\ \A s, o \in Slots :
            Races(s, o) =>
                IF \E u \in users : u.email = calls[s].email
                THEN ErrorKind(calls'[s].res) = "DuplicateAccount" /\ users' = users
                ELSE /\ calls'[s].res = "ok"
                     /\ \E u \in users' : u.email = calls[s].email]_vars

\* What does hold of the race of C9: one winner, one row, and the loser
\* answered the generic ServerError.
RaceHasOneWinner ==
    [][/\ \A u, w \in users' : u.email = w.email => u = w
       /\ \A s, o \in Slots :
            Races(s, o) =>
                IF \E u \in users : u.email = calls[s].email
                THEN calls'[s].res = "ServerError" /\ users' = users
                ELSE /\ calls'[s].res = "ok"
                     /\ \E u \in users' : u.email = calls[s].email]_vars

C11_SessionReturnsAccountSummary ==
    \A s \in Slots :
        Accepted(s) =>
            /\ calls[s].data.type = "user"
            /\ calls[s].data.id = calls[s].token.payload.id
            /\ calls[s].data.email = calls[s].token.payload.email
            /\ calls[s].data.password = NoSecret

\* C12: a sign-in that fails because no row has the email and a sign-in that
\* fails because the password is wrong are answered alike: the same HTTP
\* status, the same message and the same err text.  (A finished signIn slot
\* holding {error: 'Incorrect password'} found its row and failed on the
\* comparison: that object is thrown nowhere else.)
C12_FailedSignInsAreAnsweredAlike ==
    [][\A s, o \in Slots :
        (/\ SignsIn(s) /\ calls'[s].res # "ok"
         /\ getByEmail(calls[s].email, users) = {}
         /\ calls[o].op = "signIn" /\ calls[o].pc = "done"
         /\ calls[o].res = "IncorrectPassword")
        => signInResponse(calls'[s].res) = signInResponse(calls[o].res)]_vars

\* Slot s gets the store's answer to the join-table query in this step.
ChecksRole(s) ==
    /\ calls[s].op = "isAdmin" /\ calls[s].pc = "await_hasRole"
    /\ calls'[s].pc = "done"

\* Slot s gets the store's answer to Role.findOne in this step.
FindsRole(s) ==
    /\ calls[s].op = "isAdmin" /\ calls[s].pc = "await_Role_findOne"
    /\ calls'[s].pc # "await_Role_findOne"

IsAdminTrue(s) ==
    /\ calls[s].op = "isAdmin" /\ calls[s].pc = "done"
    /\ calls[s].res = "ok" /\ calls[s].data.bool

\* C13: isAdmin answers true only when, as the join-table query is answered,
\* User_Roles holds the row that pairs the asked id with the ADMIN role: a
\* row for another role or another user does not count; and for a user in
\* the table who holds no role at all it answers false.
C13_AdminOnlyByDirectEdge ==
    [][\A s \in Slots :
        /\ (IsAdminTrue(s)' /\ ~IsAdminTrue(s))
              => /\ ChecksRole(s)
                 /\ \E r \in roles :
                       /\ r.name = "ADMIN"
                       /\ [userId |-> calls[s].id, roleId |-> r.id] \in userRoles
        /\ (/\ ChecksRole(s) /\ calls'[s].res = "ok"
            /\ \E u \in users : u.id = calls[s].id
            /\ ~\E m \in userRoles : m.userId = calls[s].id)
              => calls'[s].data = BooleanData(FALSE)]_vars

C13_Witness ==
    \E s \in Slots :
        /\ IsAdminTrue(s)
        /\ \E m \in userRoles : m.userId # calls[s].id \/ m.roleId # RoleId("ADMIN")

\* C14: an isAdmin call whose id names no row of the Users table (findByPk
\* answered null) fails with AccountNotFound, whatever the Roles table holds;
\* only a store failure may end it otherwise.
C14_UnknownAccountIsAccountNotFound ==
    [][\A s \in Slots :
        (/\ FindsRole(s) /\ calls[s].user = 0
         /\ calls'[s].res # "SequelizeConnectionError")
        => /\ calls'[s].pc = "done"
           /\ ErrorKind(calls'[s].res) = "AccountNotFound"]_vars

\* C15: an isAdmin call for a user in the table, made while the Roles table
\* has no ADMIN row (Role.findOne answers null), is not ended by the null
\* role: it goes on to the join-table query and answers false, without an
\* error; only a store failure may end it otherwise.
C15_UnseededRoleIsNoMembership ==
    [][\A s \in Slots :
        /\ (/\ FindsRole(s) /\ calls[s].user # 0
            /\ RoleFindOne("ADMIN", roles) = {}
            /\ calls'[s].res # "SequelizeConnectionError")
              => calls'[s].pc = "await_hasRole" /\ calls'[s].role = 0
        /\ (/\ ChecksRole(s) /\ calls[s].role = 0
            /\ calls'[s].res # "SequelizeConnectionError")
              => /\ calls'[s].res = "ok"
                 /\ calls'[s].data = BooleanData(FALSE)]_vars

C15_Witness ==
    \E s \in Slots :
        /\ calls[s].op = "isAdmin" /\ calls[s].pc = "done" /\ calls[s].res = "ok"
        /\ calls[s].data = BooleanData(FALSE)
        /\ RoleFindOne("ADMIN", roles) = {}
        /\ \E u \in users : u.id = calls[s].id

\* The error kinds of the specification's taxonomy.
ErrorKinds == {"DuplicateAccount", "AccountNotFound", "InvalidCredentials",
               "InvalidToken", "ExpiredToken", "AccountGone", "StoreUnavailable"}

\* C16: whatever makes a signup, a sign-in, an isAuthenticated or an isAdmin
\* call fail (a rejected signup body aside), the controller is handed an
\* error of one of the tagged kinds, and for a store that does not answer
\* that kind is StoreUnavailable: never a raw Sequelize error, a TypeError or
\* an object without a kind.
C16_FailuresAreTagged ==
    \A s \in Slots :
        (calls[s].pc = "done" /\ calls[s].res \notin {"ok", "ValidationError"})
        => /\ ErrorKind(calls[s].res) \in ErrorKinds
           /\ calls[s].res = "SequelizeConnectionError"
                 => ErrorKind(calls[s].res) = "StoreUnavailable"

\* The claims signIn builds for createToken: {email: user.email, id: user.id}.
ClaimsPayloads == [email : Emails, id : 1..MaxId]

\* C17, as stated: verifying, before its expiry, a token that createToken
\* issued for the claims c returns c itself, exactly.
C17_Original_VerifyReturnsClaimsExactly ==
    \A t \in issued, c \in ClaimsPayloads :
        (t = createToken(c, t.payload.iat) /\ clock < t.payload.exp)
        => /\ verifyToken(t, clock).ok
           /\ verifyToken(t, clock).payload = c

\* C17, amended: verifying, before its expiry, a token that createToken issued
\* for the claims c succeeds and returns a payload with c's id and c's email;
\* the payload holds the iat and exp that jwt.sign added as well, so it is
\* more than c.
C17_VerifyReturnsClaimsWithTimes ==
    \A t \in issued, c \in ClaimsPayloads :
        (t = createToken(c, t.payload.iat) /\ clock < t.payload.exp)
        => LET response == verifyToken(t, clock)
           IN  /\ response.ok
               /\ response.payload.id = c.id
               /\ response.payload.email = c.email
               /\ DOMAIN response.payload = DOMAIN c \cup {"iat", "exp"}

C17_Witness ==
    \E s \in Slots :
        /\ Accepted(s)
        /\ calls[s].token \in issued
        /\ clock > calls[s].token.payload.iat
        /\ \E c \in ClaimsPayloads : calls[s].token = createToken(c, calls[s].token.payload.iat)

\* C18: every token signIn issues carries the instant of its issuance as iat
\* and an exp exactly 86400 seconds later, whoever it is for and whenever it
\* is issued.
C18_TokensLiveOneDay ==
    [][\A t \in issued' \ issued :
          /\ t.payload.iat = clock
          /\ t.payload.exp = t.payload.iat + 86400]_vars

C18_Witness ==
    \E t \in issued : t.payload.iat > 0 /\ t.payload.exp = t.payload.iat + 86400

\* C19: a sign-in that finds a row whose stored password is no bcrypt hash,
\* or is missing, is a sign-in with a wrong password: checkPassword answers
\* "no match" instead of throwing, and signIn fails with InvalidCredentials.
C19_BadStoredHashIsNoMatch ==
    [][\A s \in Slots :
        (/\ SignsIn(s)
         /\ \E u \in getByEmail(calls[s].email, users) : u.password.kind # "bcrypt")
        => /\ \A u \in getByEmail(calls[s].email, users) :
                 ~checkPasswordThrows(calls[s].password, u.password)
           /\ ErrorKind(calls'[s].res) = "InvalidCredentials"]_vars

\* C20: no step of a handler touches the Roles or the User_Roles table; a
\* step of signIn, isAuthenticated or isAdmin leaves the Users table as it
\* is, and so does a signup that fails; a signup that succeeds adds one row
\* under a new id and leaves every other row as it was.
C20_HandlersOnlyAddAccounts ==
    [][calls' # calls =>
        /\ roles' = roles
        /\ userRoles' = userRoles
        /\ IF \E s \in Slots : Inserts(s) /\ calls'[s].res = "ok"
           THEN \E u \in users' \ users :
                   /\ users' = users \cup {u}
                   /\ \A w \in users : w.id # u.id
           ELSE users' = users]_vars

C20_Witness ==
    \E s \in Slots :
        /\ calls[s].op = "create" /\ calls[s].pc = "done" /\ calls[s].res = "ok"
        /\ \E u, w \in users : u.id # w.id /\ w.id = calls[s].data.id
        /\ userRoles # {}

\* C21: every token signIn has returned is accepted by isAuthenticated for as
\* long as the clock is before its own exp and a row with its id is in the
\* table, however many other tokens were issued for the account before or
\* after it: verifyToken passes it, and getById's answer makes the call
\* succeed (a store that does not answer aside).
C21_IssuedTokensStayAccepted ==
    [][\A s \in Slots :
        /\ (Verifies(s) /\ calls'[s].token \in issued
                /\ clock < calls'[s].token.payload.exp)
              => calls'[s].pc = "await_getById"
        /\ (/\ LooksUp(s) /\ calls[s].token \in issued
            /\ \E u \in users : u.id = calls[s].token.payload.id
            /\ calls'[s].res # "SequelizeConnectionError")
              => calls'[s].res = "ok"]_vars

C21_Witness ==
    \E s \in Slots, t \in issued :
        /\ Accepted(s)
        /\ calls[s].token \in issued
        /\ t.payload.id = calls[s].token.payload.id
        /\ t.payload.iat > calls[s].token.payload.iat

\* The calls a handler may make in one request, in the order it makes them.
CallPlan(op) ==
    CASE op = "create" -> <<"User.create">>
      [] op = "signIn" -> <<"getByEmail", "checkPassword">>
      [] op = "isAuthenticated" -> <<"getById">>
      [] op = "isAdmin" -> <<"User.findByPk", "Role.findOne", "user.hasRole">>
      [] OTHER -> <<>>

\* C22: one request makes each of its calls at most once: a sign-in one
\* getByEmail and at most one checkPassword, a signup one User.create, an
\* isAuthenticated at most one getById, an isAdmin at most one findByPk, one
\* findOne and one hasRole; nothing is called a second time after a mismatch
\* or after the store failed.
C22_EachCallAtMostOnce ==
    \A s \in Slots :
        LET log == calls[s].log
        IN  /\ Len(log) <= Len(CallPlan(calls[s].op))
            /\ \A i \in DOMAIN log : log[i] = CallPlan(calls[s].op)[i]

C22_Witness ==
    \E s \in Slots :
        /\ calls[s].op = "signIn" /\ calls[s].pc = "done"
        /\ calls[s].res \in {"IncorrectPassword", "SequelizeConnectionError"}
        /\ \E u \in users : u.email = calls[s].email
        /\ Len(calls[s].log) >= 1

\* C23: with sign-ins, isAuthenticated and isAdmin requests interleaved, a
\* step of one request changes that request alone, and what it yields is what
\* the service's code yields from the request's own input, the store's answer
\* in that step and the clock: nothing another request did or left behind
\* enters it.
C23_CallsDoNotInterfere ==
    [][\A s \in Slots :
        calls'[s] # calls[s] =>
            /\ \A o \in Slots \ {s} : calls'[o] = calls[o]
            /\ SignsIn(s) =>
                  \E up \in BOOLEAN :
                      [res |-> calls'[s].res, token |-> calls'[s].token]
                          \in signIn(calls[s].email, calls[s].password, users, clock, up)
            /\ Verifies(s) =>
                  LET response == verifyToken(calls'[s].token, clock)
                  IN  /\ calls'[s].res = response.err
                      /\ (calls'[s].pc = "await_getById") <=> response.ok
            /\ LooksUp(s) =>
                  \E up \in BOOLEAN :
                      calls'[s].res = isAuthenticated(calls[s].token.payload, users, up)
            /\ (ChecksRole(s) /\ calls'[s].res = "ok") =>
                  calls'[s].data =
                      BooleanData(UserHasRole(calls[s].user, calls[s].role, userRoles))]_vars

C23_Witness ==
    \E s, o \in Slots :
        /\ calls[s].op = "signIn" /\ calls[s].pc = "done" /\ calls[s].res = "ok"
        /\ calls[o].op = "signIn" /\ calls[o].pc = "done"
        /\ calls[o].res = "IncorrectPassword"
        /\ calls[o].email = calls[s].email

\* Slot s takes a signup or a sign-in request in this step.
Arrives(s) == calls[s].op = "idle" /\ calls'[s].op \in {"create", "signIn"}

\* C24: a signup or sign-in request whose body lacks the email or the
\* password is answered 400 by validateUserAuth and ends there, with no call
\* to the store and the tables as they were; a request with both goes on to
\* the controller, which makes its one store call.
C24_ValidatorGuardsTheControllers ==
    [][\A s \in Slots :
        Arrives(s) =>
            LET body == [email |-> calls'[s].email, password |-> calls'[s].password]
            IN  IF body.email = Missing \/ body.password = Missing
                THEN /\ validateUserAuth(body).status = 400
                     /\ calls'[s].res = "BadRequest" /\ calls'[s].pc = "done"
                     /\ calls'[s].log = <<>>
                     /\ users' = users /\ issued' = issued
                ELSE /\ calls'[s].res = ""
                     /\ calls'[s].pc \in {"await_User_create", "await_getByEmail"}
                     /\ Len(calls'[s].log) = 1]_vars

C24_Witness ==
    \E s \in Slots :
        /\ calls[s].res = "BadRequest" /\ calls[s].log = <<>>
        /\ calls[s].email # Missing /\ calls[s].password = Missing
        /\ users # {}

\* The POST /flights request arrives in this step and passes the validator.
FlightArrives ==
    /\ fcall.pc = "idle" /\ fcall'.pc # "idle"
    /\ validateCreateFlight(fcall'.body).next

ReadsAirplane == fcall.pc = "await_getAirplane" /\ fcall'.pc # "await_getAirplane"

\* C26: the row createFlight adds has, as totalSeats, the capacity this very
\* request read from the airplane its airplaneId names; when getAirplane
\* finds no airplane under that id the request fails, Flights.create is not
\* called and the table stays as it was.
C26_TotalSeatsIsTheAirplanesCapacity ==
    [][/\ \A f \in flights' \ flights :
             /\ fcall.pc = "await_Flights_create"
             /\ f.airplaneId = fcall.body.airplaneId
             /\ f.totalSeats = fcall.airplane
       /\ (ReadsAirplane /\ fcall'.pc = "await_Flights_create")
             => /\ airplanes[fcall.body.airplaneId] # 0
                /\ fcall'.airplane = airplanes[fcall.body.airplaneId]
       /\ (ReadsAirplane /\ airplanes[fcall.body.airplaneId] = 0)
             => /\ fcall'.pc = "done"
                /\ fcall'.res \notin {"", "ok"}
                /\ fcall'.log = <<"getAirplane">>
                /\ flights' = flights]_vars

C26_Witness ==
    /\ fcall.pc = "done" /\ fcall.res = "ok"
    /\ \E f \in flights :
          /\ f.flightNumber = fcall.body.flightNumber
          /\ f.totalSeats = fcall.airplane
          /\ f.totalSeats \in Capacities
          /\ airplanes[f.airplaneId] # f.totalSeats

\* The request body does not carry the field.
Absent(field, x) == IF field = "flightNumber" THEN x = Missing ELSE x = Undefined

\* C27: validateCreateFlight answers 400 exactly when the body lacks one of
\* the seven fields; a body that carries all seven, the price 0 that the
\* Flights model allows (min: 0) included, goes on to the controller.
C27_Validator400IffFieldMissing ==
    [][(fcall.pc = "idle" /\ fcall'.pc # "idle") =>
          ((fcall'.res = "BadRequest")
              <=> \E f \in FlightFields : Absent(f, fcall'.body[f]))]_vars

\* C28: a token isAuthenticated accepts is one that signIn returned before,
\* and signIn returns a token only in the step in which the password of the
\* request verifies against the stored hash of the row the token names;
\* signups, isAuthenticated and isAdmin hand out no token.
C28_AcceptedTokensCameFromSignIn ==
    [][/\ \A s \in Slots :
             /\ (Accepted(s)' /\ ~Accepted(s)) => calls'[s].token \in issued
             /\ calls'[s].op \in {"create", "isAdmin"} => calls'[s].token = NoToken
             /\ (calls'[s].op = "isAuthenticated" /\ calls[s].op = "isAuthenticated")
                   => calls'[s].token = calls[s].token
       /\ \A t \in issued' \ issued :
             \E s \in Slots :
                /\ SignsIn(s) /\ calls'[s].res = "ok" /\ calls'[s].token = t
                /\ \E u \in users :
                      /\ u.id = t.payload.id /\ u.email = calls[s].email
                      /\ BcryptCompareSync(calls[s].password, u.password)]_vars

C28_Witness ==
    \E s \in Slots :
        /\ Accepted(s)
        /\ calls[s].token \in issued
        /\ \E r \in registered :
              r.id = calls[s].token.payload.id /\ r.email = calls[s].token.payload.email
        /\ userRoles # {}

\* C29: a token whose account was destroyed stays rejected when a new account
\* holds the same email: isAuthenticated looks the subject up by the id in
\* the token alone, and a new row never gets the id of a destroyed row or of
\* any token issued so far.
C29_ReRegistrationDoesNotReviveTokens ==
    [][/\ \A s \in Slots :
             (/\ LooksUp(s)
              /\ calls[s].token.payload.id \in deleted
              /\ \E u \in users : u.email = calls[s].token.payload.email)
             => calls'[s].res \in {"NoUserForToken", "SequelizeConnectionError"}
       /\ \A u \in users' \ users :
             /\ u.id \notin deleted
             /\ \A t \in issued : t.payload.id # u.id]_vars

C29_Witness ==
    \E s \in Slots :
        /\ calls[s].op = "isAuthenticated" /\ calls[s].pc = "done"
        /\ calls[s].res = "NoUserForToken"
        /\ calls[s].token \in issued
        /\ calls[s].token.payload.id \in deleted
        /\ \E u \in users : u.email = calls[s].token.payload.email

\* C30: isAuthenticated asks the store for the user only when verifyToken has
\* passed the token: a request without a token, with a token whose signature
\* does not verify, or with a token at or past its exp fails at once, no
\* getById made; and a request without a token is in no state accepted.
C30_LookupOnlyAfterVerification ==
    [][\A s \in Slots :
        /\ Verifies(s) =>
              LET t == calls'[s].token
              IN  IF t = NoToken \/ ~SigOK(t) \/ clock >= t.payload.exp
                  THEN /\ calls'[s].pc = "done"
                       /\ calls'[s].res \notin {"", "ok"}
                       /\ calls'[s].log = <<>>
                  ELSE /\ calls'[s].pc = "await_getById"
                       /\ calls'[s].log = <<"getById">>
        /\ Accepted(s)' => calls'[s].token # NoToken]_vars

C30_Witness ==
    \E s \in Slots :
        /\ calls[s].op = "isAuthenticated" /\ calls[s].pc = "done"
        /\ calls[s].res = "TokenExpiredError"
        /\ calls[s].log = <<>>
        /\ calls[s].token \in issued
        /\ \E u \in users : u.id = calls[s].token.payload.id

====
